---- MODULE Spec2Model ----
(***************************************************************************)
(* Model of the chat client (App, ChatArea, MessageInput, api.streamChat)  *)
(* and of the server-side run_python dispatch described by the README.     *)
(*                                                                         *)
(* Five specifications share the variables of this module:                 *)
(*   Spec        the React client: App + ChatArea + MessageInput, with     *)
(*               the server as an environment that answers each request    *)
(*               with any response of a bounded set;                       *)
(*   ParseSpec   api.streamChat's read loop, character by character, over  *)
(*               every body of a bounded set and every split into chunks;  *)
(*   SandboxSpec the run_python tool: policy evaluation, then execution;   *)
(*   ContextSpec the Context Window Manager of one conversation;           *)
(*   TurnSpec    the Streaming Orchestrator of one turn.                   *)
(***************************************************************************)
EXTENDS Integers, Sequences, FiniteSets, TLC

VARIABLES
    \* App.tsx useState
    conversations, activeConversationId,
    \* ChatArea.tsx useState / useRef
    messages, streamingContent, thinkingContent, isThinking, isStreaming,
    isLoading, toolStatus, error, abortControllerRef,
    \* the calls of ChatArea.handleSend that have not returned (closure and
    \* position of each, by call number), and the number of calls so far
    turns, nSends,
    \* calls of the event callback and clicks in the sidebar so far
    nEvents, nNav,
    \* requests in flight: the load effect's fetches, loadConversations,
    \* handleDeleteConversation; and whether the request that settled last
    \* was fulfilled
    loads, convLoads, deletes, settledOk,
    \* api.streamChat's read loop (ParseSpec)
    body, offset, buffer, delivered, readerPc,
    \* the run_python tool (SandboxSpec)
    sandbox,
    \* a conversation as the Context Window Manager sees it (ContextSpec)
    context,
    \* the Streaming Orchestrator of a turn (TurnSpec)
    orchestrator

uiVars == <<conversations, activeConversationId, messages, streamingContent,
            thinkingContent, isThinking, isStreaming, isLoading, toolStatus,
            error, abortControllerRef, turns, nSends, nEvents, nNav, loads,
            convLoads, deletes, settledOk>>
parseVars == <<body, offset, buffer, delivered, readerPc>>
sandboxVars == <<sandbox>>
contextVars == <<context>>
orchestratorVars == <<orchestrator>>
vars == <<uiVars, parseVars, sandboxVars, contextVars, orchestratorVars>>

-----------------------------------------------------------------------------
\* Bounds of the model.

\* what the user does in one run: messages sent plus clicks in the sidebar
\* (new chat, select, delete)
MaxUserActions == 3
\* events the response streams of one run carry
MaxEvents == 2
\* lines in a response body of ParseSpec
MaxLines == 2

\* syntax-tree nodes in a code submission, and run_python calls in one run,
\* of SandboxSpec
MaxNodes == 1
MaxDispatches == 2
\* messages of the conversation of ContextSpec
MaxMessages == 23
\* tool invocations the first pass signals, and increments of the generation
\* stream, in the turn of TurnSpec
MaxToolCalls == 2
MaxIncrements == 3

UserActionsLeft == nSends + nNav < MaxUserActions
\* messages in a server response to fetchConversation
MaxServerMsgs == 1

-----------------------------------------------------------------------------
\* Values.

null == "null"
ConvIds == {"c1", "c2"}

\* what text.trim() can be in MessageInput.handleSend
TrimmedTexts == {"", "hi"}

Ev(type, content, cid) ==
    [type |-> type, content |-> content, conversation_id |-> cid]

\* the tagged records of the event stream
SSEEvents ==
    {Ev("thinking", "t", ""), Ev("token", "a", ""), Ev("tool_status", "s", ""),
     Ev("error", "e", "")}
    \cup {Ev("done", "", "c2")}

\* bodies of a non-OK response to POST /api/chat
ErrorTexts == {"", "bad"}

ServerMessages(id, n) ==
    [i \in 1..n |->
        [id |-> id \o "-" \o ToString(i),
         role |-> IF i % 2 = 1 THEN "user" ELSE "assistant",
         content |-> "m"]]

\* what GET /api/conversations/:id can answer: a message list, or a failure
ConversationResponses(id) ==
    {[ok |-> TRUE, messages |-> ServerMessages(id, MaxServerMsgs)],
     [ok |-> FALSE, messages |-> <<>>]}

\* what GET /api/conversations can answer
ConversationLists == {<<"c1", "c2">>}

Range(s) == {s[i] : i \in DOMAIN s}

-----------------------------------------------------------------------------
\* The client's state as one record, so that a handler is a function of it.

World ==
    [conversations |-> conversations,
     activeConversationId |-> activeConversationId,
     messages |-> messages,
     streamingContent |-> streamingContent,
     thinkingContent |-> thinkingContent,
     isThinking |-> isThinking,
     isStreaming |-> isStreaming,
     isLoading |-> isLoading,
     toolStatus |-> toolStatus,
     error |-> error,
     abortControllerRef |-> abortControllerRef,
     turns |-> turns,
     nSends |-> nSends,
     nEvents |-> nEvents,
     nNav |-> nNav,
     loads |-> loads,
     convLoads |-> convLoads,
     deletes |-> deletes,
     settledOk |-> settledOk]

Commit(w) ==
    /\ conversations' = w.conversations
    /\ activeConversationId' = w.activeConversationId
    /\ messages' = w.messages
    /\ streamingContent' = w.streamingContent
    /\ thinkingContent' = w.thinkingContent
    /\ isThinking' = w.isThinking
    /\ isStreaming' = w.isStreaming
    /\ isLoading' = w.isLoading
    /\ toolStatus' = w.toolStatus
    /\ error' = w.error
    /\ abortControllerRef' = w.abortControllerRef
    /\ turns' = w.turns
    /\ nSends' = w.nSends
    /\ nEvents' = w.nEvents
    /\ nNav' = w.nNav
    /\ loads' = w.loads
    /\ convLoads' = w.convLoads
    /\ deletes' = w.deletes
    /\ settledOk' = w.settledOk
    /\ UNCHANGED <<parseVars, sandboxVars, contextVars, orchestratorVars>>

-----------------------------------------------------------------------------
\* ChatArea: the effect that loads the messages when conversationId changes.
\* prev is the conversationId of the previous render.

ChatAreaLoadEffect(w, prev) ==
    IF w.activeConversationId = prev THEN w
    ELSE LET cleaned == {[l EXCEPT !.cancelled = TRUE] : l \in w.loads} IN
         IF w.activeConversationId = null
         THEN [w EXCEPT !.loads = cleaned, !.messages = <<>>]
         ELSE [w EXCEPT !.loads = cleaned \cup
                  {[conversationId |-> w.activeConversationId,
                    cancelled |-> FALSE]}]

\* an effect that leaves the list as it is when the fetch fails
LoadSettledKeepsOnFailure(w, l, res) ==
    LET w1 == [w EXCEPT !.loads = @ \ {l}, !.settledOk = res.ok] IN
    IF l.cancelled THEN w1
    ELSE IF res.ok THEN [w1 EXCEPT !.messages = res.messages]
    ELSE w1

\* the async body of the effect, resumed after fetchConversation settles
LoadSettled(w, l, res) ==
    LET w1 == [w EXCEPT !.loads = @ \ {l}, !.settledOk = res.ok] IN
    IF l.cancelled THEN w1
    ELSE IF res.ok THEN [w1 EXCEPT !.messages = res.messages]
    ELSE [w1 EXCEPT !.messages = <<>>]

-----------------------------------------------------------------------------
\* App.tsx

setActiveConversationId(w, id) ==
    ChatAreaLoadEffect([w EXCEPT !.activeConversationId = id],
                       w.activeConversationId)

loadConversations(w) == [w EXCEPT !.convLoads = @ + 1]

LoadConversationsSettled(w, ok, convs) ==
    LET w1 == [w EXCEPT !.convLoads = @ - 1, !.settledOk = ok] IN
    IF ok THEN [w1 EXCEPT !.conversations = convs] ELSE w1

handleNewChat(w) == setActiveConversationId(w, null)

handleSelectConversation(w, id) == setActiveConversationId(w, id)

\* up to the await: the closure keeps the activeConversationId it was made with
handleDeleteConversation(w, id) ==
    [w EXCEPT !.deletes = @ \cup
                 {[id |-> id, activeConversationId |-> w.activeConversationId]}]

\* a handler that takes the conversation off the list whatever the outcome
DeleteSettledOptimistic(w, d, ok) ==
    LET w1 == [w EXCEPT !.deletes = @ \ {d}, !.settledOk = ok]
        Keep(c) == c # d.id
        w2 == [w1 EXCEPT !.conversations = SelectSeq(@, Keep)]
    IN
    IF ok /\ d.activeConversationId = d.id
    THEN setActiveConversationId(w2, null)
    ELSE w2

\* handleDeleteConversation resumed after deleteConversation(id) settles
DeleteSettled(w, d, ok) ==
    LET w1 == [w EXCEPT !.deletes = @ \ {d}, !.settledOk = ok]
        Keep(c) == c # d.id
    IN
    IF ~ok THEN w1
    ELSE LET w2 == [w1 EXCEPT !.conversations = SelectSeq(@, Keep)] IN
         IF d.activeConversationId = d.id
         THEN setActiveConversationId(w2, null)
         ELSE w2

handleConversationCreated(w, newId) ==
    loadConversations(setActiveConversationId(w, newId))

-----------------------------------------------------------------------------
\* MessageInput

\* a handleSend that forgets the disabled prop
MessageInputSendsWhileDisabled(trimmed, disabled) == trimmed # ""

\* MessageInput.handleSend goes on to onSend unless it returns early
MessageInputSends(trimmed, disabled) == trimmed # "" /\ ~disabled

\* the disabled prop ChatArea renders MessageInput with
disabled == isStreaming

-----------------------------------------------------------------------------
\* ChatArea.handleSend. A turn is one call of it: pc is where the call is
\* suspended ("fetch": streamChat awaits the response of POST /api/chat,
\* "read": streamChat awaits reader.read(), "reload": handleSend awaits
\* fetchConversation(reloadId), "end": returned). conversationId is the prop
\* the closure was made with. terminal, firstDoneId and created record what
\* has happened to the call so far.

NewTurn(w) ==
    [pc |-> "fetch",
     conversationId |-> w.activeConversationId,
     currentConvId |-> w.activeConversationId,
     gotFirstToken |-> FALSE,
     signal |-> [aborted |-> FALSE],
     terminal |-> "none",
     firstDoneId |-> null,
     created |-> <<>>]

\* handleSend up to the first await (the fetch inside streamChat)
handleSend(w, text) ==
    LET n == w.nSends + 1
        userMessage == [id |-> "msg-" \o ToString(n), role |-> "user",
                        content |-> text]
    IN [w EXCEPT !.error = null,
                 !.toolStatus = null,
                 !.thinkingContent = "",
                 !.isThinking = FALSE,
                 !.messages = Append(@, userMessage),
                 !.isLoading = TRUE,
                 !.isStreaming = TRUE,
                 !.streamingContent = "",
                 !.abortControllerRef = "ac-" \o ToString(n),
                 !.nSends = n,
                 !.turns = (n :> NewTurn(w)) @@ @]

\* the cases of the switch in the callback handleSend gives streamChat
OnThinking(w, t, event) ==
    [w EXCEPT !.isLoading = FALSE,
              !.isThinking = TRUE,
              !.thinkingContent = @ \o event.content]

\* a token case that takes the first token for the end of the turn
OnTokenEndsTurn(w, t, event) ==
    LET w1 == IF ~w.turns[t].gotFirstToken
              THEN [w EXCEPT !.turns[t].gotFirstToken = TRUE,
                             !.isLoading = FALSE,
                             !.isThinking = FALSE,
                             !.isStreaming = FALSE]
              ELSE w
    IN [w1 EXCEPT !.streamingContent = @ \o event.content]

OnToken(w, t, event) ==
    LET w1 == IF ~w.turns[t].gotFirstToken
              THEN [w EXCEPT !.turns[t].gotFirstToken = TRUE,
                             !.isLoading = FALSE,
                             !.isThinking = FALSE]
              ELSE w
    IN [w1 EXCEPT !.streamingContent = @ \o event.content]

OnToolStatus(w, t, event) ==
    [w EXCEPT !.isThinking = FALSE, !.toolStatus = event.content]

\* a done case that adopts the id whatever conversation the turn was sent in
OnDoneAlwaysAdopts(w, t, event) ==
    IF event.conversation_id # ""
    THEN handleConversationCreated(
             [w EXCEPT !.turns[t].currentConvId = event.conversation_id,
                       !.turns[t].created = Append(@, event.conversation_id)],
             event.conversation_id)
    ELSE w

OnDone(w, t, event) ==
    IF w.turns[t].currentConvId = null /\ event.conversation_id # ""
    THEN handleConversationCreated(
             [w EXCEPT !.turns[t].currentConvId = event.conversation_id,
                       !.turns[t].created = Append(@, event.conversation_id)],
             event.conversation_id)
    ELSE w

OnError(w, t, event) == [w EXCEPT !.error = event.content]

\* one call of the callback by streamChat
onEvent(w, t, event) ==
    LET w1 == [w EXCEPT
                 !.nEvents = @ + 1,
                 !.turns[t].terminal =
                     IF @ = "none" /\ event.type \in {"done", "error"}
                     THEN event.type ELSE @,
                 !.turns[t].firstDoneId =
                     IF @ = null /\ event.type = "done"
                        /\ event.conversation_id # ""
                     THEN event.conversation_id ELSE @]
    IN CASE event.type = "thinking" -> OnThinking(w1, t, event)
         [] event.type = "token" -> OnToken(w1, t, event)
         [] event.type = "tool_status" -> OnToolStatus(w1, t, event)
         [] event.type = "done" -> OnDone(w1, t, event)
         [] event.type = "error" -> OnError(w1, t, event)

\* the catch block around await streamChat(...)
Catch(w, t, err) ==
    IF err = "AbortError" THEN w
    ELSE [w EXCEPT !.error = "Failed to send message. Is the server running?"]

\* what fetch and reader.read() can reject with: a network failure, or an
\* AbortError once the signal is aborted
Rejections(turn) ==
    {"TypeError"} \cup (IF turn.signal.aborted THEN {"AbortError"} ELSE {})

\* the call returns: its closure is gone
Return(w, t) ==
    [w EXCEPT !.turns = [n \in DOMAIN @ \ {t} |-> @[n]]]

\* a finalize that keeps the streamed text as an assistant message
FinalizeKeepsStreamed(w, t) ==
    LET reloadId == w.turns[t].currentConvId
        w1 == [w EXCEPT !.messages =
                            IF w.streamingContent # ""
                            THEN Append(@, [id |-> "msg-a" \o ToString(t),
                                            role |-> "assistant",
                                            content |-> w.streamingContent])
                            ELSE @,
                        !.streamingContent = "",
                        !.isStreaming = FALSE,
                        !.isLoading = FALSE,
                        !.isThinking = FALSE,
                        !.thinkingContent = "",
                        !.toolStatus = null,
                        !.abortControllerRef = null]
    IN IF reloadId # null THEN [w1 EXCEPT !.turns[t].pc = "reload"]
       ELSE Return(w1, t)

\* handleSend after the try/catch, up to await fetchConversation(reloadId)
Finalize(w, t) ==
    LET reloadId == w.turns[t].currentConvId
        w1 == [w EXCEPT !.streamingContent = "",
                        !.isStreaming = FALSE,
                        !.isLoading = FALSE,
                        !.isThinking = FALSE,
                        !.thinkingContent = "",
                        !.toolStatus = null,
                        !.abortControllerRef = null]
    IN IF reloadId # null THEN [w1 EXCEPT !.turns[t].pc = "reload"]
       ELSE Return(w1, t)

\* handleSend resumed after fetchConversation(reloadId) settles
ReloadSettled(w, t, res) ==
    LET w1 == [w EXCEPT !.settledOk = res.ok] IN
    IF res.ok THEN Return([w1 EXCEPT !.messages = res.messages], t)
    ELSE Return(w1, t)

\* streamChat: the response is not OK
ResponseNotOk(w, t, text) ==
    onEvent(w, t, Ev("error", IF text # "" THEN text ELSE "Request failed", ""))

-----------------------------------------------------------------------------
\* The conditions of the render of ChatArea.

ThinkingBlockShown == isThinking /\ thinkingContent # ""
LoadingDotsShown == isLoading /\ streamingContent = "" /\ ~isThinking
ErrorBannerShown == error # null /\ error # ""

\* turns whose streamChat call has not returned or thrown
InFlight == {t \in DOMAIN turns : turns[t].pc \in {"fetch", "read"}}

-----------------------------------------------------------------------------
\* Actions of Spec.

Send(text) ==
    /\ UserActionsLeft
    /\ MessageInputSends(text, disabled)
    /\ Commit(handleSend(World, text))

\* a handleSend whose finalize is skipped when streamChat throws
StreamThrowsSkipsFinalize(t, err) ==
    /\ turns[t].pc \in {"fetch", "read"}
    /\ err \in Rejections(turns[t])
    /\ Commit(Return(Catch(World, t, err), t))

StreamThrows(t, err) ==
    /\ turns[t].pc \in {"fetch", "read"}
    /\ err \in Rejections(turns[t])
    /\ Commit(Finalize(Catch(World, t, err), t))

StreamNotOk(t, text) ==
    /\ turns[t].pc = "fetch"
    /\ Commit(Finalize(ResponseNotOk(World, t, text), t))

StreamOk(t) ==
    /\ turns[t].pc = "fetch"
    /\ Commit([World EXCEPT !.turns[t].pc = "read"])

\* reader.read() gives a chunk that completes the line of one event
StreamEvent(t, event) ==
    /\ turns[t].pc = "read"
    /\ nEvents < MaxEvents
    /\ Commit(onEvent(World, t, event))

\* reader.read() gives done; rest is what the remaining buffer parses to
StreamEnd(t, rest) ==
    /\ turns[t].pc = "read"
    /\ Len(rest) + nEvents <= MaxEvents
    /\ Commit(Finalize(IF rest = <<>> THEN World
                       ELSE onEvent(World, t, rest[1]), t))

Reloaded(t, res) ==
    /\ turns[t].pc = "reload"
    /\ Commit(ReloadSettled(World, t, res))

Loaded(l, res) ==
    /\ l \in loads
    /\ Commit(LoadSettled(World, l, res))

ConversationsLoaded(ok, convs) ==
    /\ convLoads > 0
    /\ Commit(LoadConversationsSettled(World, ok, convs))

NewChat ==
    /\ UserActionsLeft
    /\ Commit(handleNewChat([World EXCEPT !.nNav = @ + 1]))

\* the sidebar shows one item per conversation of the list
Select(id) ==
    /\ id \in Range(conversations)
    /\ UserActionsLeft
    /\ Commit(handleSelectConversation([World EXCEPT !.nNav = @ + 1], id))

Delete(id) ==
    /\ id \in Range(conversations)
    /\ UserActionsLeft
    /\ Commit(handleDeleteConversation([World EXCEPT !.nNav = @ + 1], id))

Deleted(d, ok) ==
    /\ d \in deletes
    /\ Commit(DeleteSettled(World, d, ok))

ParseIdle ==
    /\ body = <<>> /\ offset = 0 /\ buffer = <<>> /\ delivered = <<>>
    /\ readerPc = "idle"

SandboxIdle == sandbox = <<>>

ContextIdle == context = <<>>

OrchestratorIdle == orchestrator = <<>>

\* the state after the first render and its effects
Init ==
    /\ conversations = <<>>
    /\ activeConversationId = null
    /\ messages = <<>>
    /\ streamingContent = ""
    /\ thinkingContent = ""
    /\ isThinking = FALSE
    /\ isStreaming = FALSE
    /\ isLoading = FALSE
    /\ toolStatus = null
    /\ error = null
    /\ abortControllerRef = null
    /\ turns = <<>>
    /\ nSends = 0
    /\ nEvents = 0
    /\ nNav = 0
    /\ loads = {}
    /\ convLoads = 1
    /\ deletes = {}
    /\ settledOk = TRUE
    /\ ParseIdle
    /\ SandboxIdle
    /\ ContextIdle
    /\ OrchestratorIdle

Next ==
    \/ \E text \in TrimmedTexts : Send(text)
    \/ \E t \in DOMAIN turns : \E err \in {"TypeError", "AbortError"} :
           StreamThrows(t, err)
    \/ \E t \in DOMAIN turns : \E text \in ErrorTexts : StreamNotOk(t, text)
    \/ \E t \in DOMAIN turns : StreamOk(t)
    \/ \E t \in DOMAIN turns : \E event \in SSEEvents : StreamEvent(t, event)
    \/ \E t \in DOMAIN turns :
           \E rest \in {<<>>} \cup {<<e>> : e \in SSEEvents} : StreamEnd(t, rest)
    \/ \E t \in DOMAIN turns :
           \E res \in ConversationResponses(turns[t].currentConvId) :
               Reloaded(t, res)
    \/ \E l \in loads : \E res \in ConversationResponses(l.conversationId) :
           Loaded(l, res)
    \/ \E ok \in BOOLEAN : \E convs \in ConversationLists :
           ConversationsLoaded(ok, convs)
    \/ NewChat
    \/ \E id \in ConvIds : Select(id)
    \/ \E id \in ConvIds : Delete(id)
    \/ \E d \in deletes : \E ok \in BOOLEAN : Deleted(d, ok)

Spec == Init /\ [][Next]_vars

-----------------------------------------------------------------------------
\* Properties of the client (Spec).

\* C1: at most one streamChat call is in flight at any time, and while one
\* is in flight the message input is disabled, so that no second turn can
\* start before the stream of the first has ended.
C1_TurnsNeverInterleave ==
    /\ Cardinality(InFlight) <= 1
    /\ InFlight # {} => disabled

\* a second turn streams while the first is still waiting for its reload
C1_Witness ==
    \E t1, t2 \in DOMAIN turns :
        /\ t1 < t2
        /\ turns[t1].pc = "reload"
        /\ turns[t2].pc = "read"
        /\ nEvents > 0

\* C3 (as claimed): once a token event has been handled in a turn, the
\* thinking block is not displayed for the rest of that turn.
C3_ThinkingHiddenAfterFirstToken ==
    \A t \in InFlight : turns[t].gotFirstToken => ~ThinkingBlockShown

\* C4: the first token event turns the loading and thinking indicators off;
\* a handled event leaves the chat area streaming with the input disabled as
\* long as the stream has not ended; and isStreaming only becomes false in a
\* step in which a streamChat call returns or throws.
C4_FirstTokenDoesNotEndTurn ==
    [][/\ \A t \in DOMAIN turns \cap DOMAIN turns' :
              ~turns[t].gotFirstToken /\ turns'[t].gotFirstToken
                  => ~isLoading' /\ ~isThinking'
       /\ nEvents' > nEvents /\ InFlight' # {} => isStreaming' /\ disabled'
       /\ isStreaming /\ ~isStreaming' => \E t \in InFlight : t \notin InFlight'
      ]_vars

\* thinking was shown, the first token has switched it off, the turn goes on
C4_Witness ==
    \E t \in InFlight :
        /\ turns[t].gotFirstToken
        /\ thinkingContent # ""
        /\ streamingContent # ""
        /\ ~isThinking /\ ~isLoading /\ isStreaming

\* C5 (as claimed): when the active conversation is no longer the one of the
\* turn in flight, the abort signal given to streamChat has been triggered.
C5_NavigationAborts ==
    \A t \in InFlight :
        activeConversationId # turns[t].currentConvId => turns[t].signal.aborted

\* C6: the displayed list holds only messages of a server response and user
\* messages appended by handleSend; streamed answer text is never in it.
LocalUserMessages ==
    {[id |-> "msg-" \o ToString(n), role |-> "user", content |-> text] :
        n \in 1..nSends, text \in TrimmedTexts \ {""}}

ServerMessageSet ==
    UNION {Range(ServerMessages(id, MaxServerMsgs)) : id \in ConvIds}

C6_NoPartialCommit ==
    \A i \in DOMAIN messages :
        messages[i] \in ServerMessageSet \cup LocalUserMessages

FailedToSend == "Failed to send message. Is the server running?"

\* a turn that received answer tokens has ended with an error event or a
\* transport failure, and the list is not empty
C6_Witness ==
    \E t \in DOMAIN turns :
        /\ turns[t].pc = "reload"
        /\ turns[t].gotFirstToken
        /\ turns[t].terminal = "error" \/ error = FailedToSend
        /\ messages # <<>>

\* C7 (as claimed): the content of a handled error event stays displayed,
\* unchanged, until the next message is sent.
EventErrorContents == {"e", "bad", "Request failed"}

C7_ErrorShownVerbatim ==
    [][(error \in EventErrorContents /\ nSends' = nSends) => (error' = error)]_vars

\* C8 (as claimed): after a done or error event of a turn, no further event
\* of that turn is delivered to the callback.
C8_DoneAndErrorTerminal ==
    [][\A t \in InFlight : turns[t].terminal # "none" => (nEvents' = nEvents)]_vars

\* C9: a turn sent with no conversation selected calls onConversationCreated
\* exactly once, with the id of the first done event that carries one, and
\* that id becomes the active conversation; a turn sent in an existing
\* conversation never calls it, and its events leave the active conversation
\* as it is.
C9_AdoptedOnlyOnFirstTurn ==
    /\ [](\A t \in DOMAIN turns :
            /\ turns[t].conversationId # null => turns[t].created = <<>>
            /\ turns[t].conversationId = null /\ turns[t].firstDoneId # null
                   => turns[t].created = <<turns[t].firstDoneId>>
            /\ turns[t].conversationId = null /\ turns[t].firstDoneId = null
                   => turns[t].created = <<>>)
    /\ [][/\ \A t \in DOMAIN turns \cap DOMAIN turns' :
                 turns'[t].created # turns[t].created
                     => activeConversationId' = turns'[t].firstDoneId
          /\ (nEvents' > nEvents
                /\ \A t \in InFlight : turns[t].conversationId # null)
                 => /\ activeConversationId' = activeConversationId
                    /\ convLoads' = convLoads
         ]_vars

\* the id of done has been adopted by a turn sent in a new chat
C9_Witness ==
    \E t \in DOMAIN turns :
        /\ turns[t].conversationId = null
        /\ turns[t].created = <<"c2">>
        /\ activeConversationId = "c2"

\* the step in which the fetch l of the load effect settles
LoadSettles(l) ==
    /\ l \in loads
    /\ loads' = loads \ {l}
    /\ nNav' = nNav /\ deletes' = deletes /\ turns' = turns

\* the step in which the reload of turn t settles
ReloadSettles(t) ==
    /\ t \in DOMAIN turns /\ turns[t].pc = "reload"
    /\ t \notin DOMAIN turns'

\* the step in which the delete request d settles
DeleteSettles(d) == d \in deletes /\ deletes' = deletes \ {d}

\* C14: a conversation that becomes the active one gets a fetch of its own,
\* and every other fetch of the load effect is cancelled; when the fetch of
\* the active conversation is fulfilled the displayed list becomes the list
\* of the response, when it is rejected the list becomes empty; and when
\* the selection goes to no conversation the list is emptied.
C14_LoadShowsServerHistory ==
    /\ [](\A l \in loads :
             l.conversationId # activeConversationId => l.cancelled)
    /\ [][/\ \A l \in loads :
                 LoadSettles(l) /\ ~l.cancelled
                     => messages' =
                            IF settledOk'
                            THEN ServerMessages(l.conversationId, MaxServerMsgs)
                            ELSE <<>>
          /\ (activeConversationId' # activeConversationId
                 /\ activeConversationId' # null)
                 => [conversationId |-> activeConversationId',
                     cancelled |-> FALSE] \in loads'
          /\ (activeConversationId' # activeConversationId
                 /\ activeConversationId' = null)
                 => messages' = <<>>
         ]_vars

\* the user has gone from one conversation to another and back, or to a new
\* chat and back, and the history of the conversation is displayed again
C14_Witness ==
    /\ nSends = 0 /\ nNav >= 2
    /\ activeConversationId # null
    /\ loads = {[conversationId |-> activeConversationId, cancelled |-> TRUE]}
    /\ settledOk
    /\ messages = ServerMessages(activeConversationId, MaxServerMsgs)

\* C15 (as claimed): a fetch of one conversation's messages that settles
\* while another conversation, or none, is the active one leaves the
\* displayed list as it is, be it the fetch of the load effect or the
\* reload at the end of a turn.
C15_NoCrossConversationOverwrite ==
    [][/\ \A l \in loads :
             LoadSettles(l) /\ l.conversationId # activeConversationId
                 => messages' = messages
       /\ \A t \in DOMAIN turns :
             ReloadSettles(t) /\ turns[t].currentConvId # activeConversationId
                 => messages' = messages
      ]_vars

\* the user message handleSend appended for turn t is in the displayed list
UserMessageShown(msgs, t) ==
    \E i \in DOMAIN msgs : msgs[i].id = "msg-" \o ToString(t)

\* C16 (as claimed): when the reload of a turn settles while a later turn is
\* streaming, the user message of the later turn stays in the displayed list.
C16_UserMessageSurvivesReload ==
    [][\A t1 \in DOMAIN turns :
           ReloadSettles(t1)
               => \A t2 \in InFlight :
                      UserMessageShown(messages, t2)
                          => UserMessageShown(messages', t2)
      ]_vars

\* C17 (as claimed): a fulfilled delete request sets the active conversation
\* to none when the deleted conversation is the active one as the request
\* settles, and leaves the active conversation as it is otherwise.
C17_DeleteClearsActiveOnly ==
    [][\A d \in deletes :
           DeleteSettles(d) /\ settledOk'
               => activeConversationId' =
                      IF activeConversationId = d.id THEN null
                      ELSE activeConversationId
      ]_vars

\* C18: whenever no streamChat call is pending, that is from the moment the
\* call of a turn has returned or thrown, the indicators are off, the
\* streamed texts are empty, toolStatus and the abort controller reference
\* are null, and the input is enabled.
C18_TurnAlwaysFinalized ==
    InFlight = {} =>
        /\ ~isStreaming /\ ~isLoading /\ ~isThinking
        /\ streamingContent = "" /\ thinkingContent = ""
        /\ toolStatus = null
        /\ abortControllerRef = null
        /\ ~disabled

\* a turn that had shown thinking text and a tool status ended with a
\* transport failure
C18_Witness ==
    /\ nSends = 1 /\ nEvents = 2
    /\ \E t \in DOMAIN turns : turns[t].pc = "reload" /\ ~turns[t].gotFirstToken
    /\ InFlight = {}
    /\ error = FailedToSend

\* C19: a rejected delete request leaves the conversation list and the
\* active conversation as they are; a fulfilled one takes exactly the
\* deleted conversation off the list and keeps the others in their order.
C19_FailedDeleteChangesNothing ==
    [][\A d \in deletes :
           DeleteSettles(d)
               => LET Keep(c) == c # d.id IN
                  IF settledOk'
                  THEN conversations' = SelectSeq(conversations, Keep)
                  ELSE /\ conversations' = conversations
                       /\ activeConversationId' = activeConversationId
      ]_vars

\* the delete of c1 was fulfilled, then the delete of c2 was rejected
C19_Witness ==
    /\ conversations = <<"c2">>
    /\ ~settledOk
    /\ nNav = 2 /\ nSends = 0
    /\ deletes = {} /\ loads = {} /\ convLoads = 0

-----------------------------------------------------------------------------
\* api.streamChat's read loop (ParseSpec). Text is a sequence of characters.
\* A JSON text is written as one letter: "T", "K" and "D" stand for the JSON
\* of a token, a thinking and a done event, "{" for a text JSON.parse rejects.

DataPrefix == <<"d", "a", "t", "a", ":", " ">>
Whitespace == {" ", "\t", "\r", "\n"}

JsonValue(c) ==
    CASE c = "T" -> Ev("token", "a", "")
      [] c = "K" -> Ev("thinking", "t", "")
      [] c = "D" -> Ev("done", "", "c2")
JsonLetters == {"T", "K", "D"}

\* String.prototype.split("\n"): a newline starts a new piece, any other
\* character goes to the last piece
SplitStep(pieces, c) ==
    IF c = "\n" THEN Append(pieces, <<>>)
    ELSE [pieces EXCEPT ![Len(pieces)] = Append(@, c)]

SplitLines(str) ==
    LET F[i \in 0..Len(str)] ==
            IF i = 0 THEN << <<>> >> ELSE SplitStep(F[i - 1], str[i])
    IN F[Len(str)]

\* String.prototype.trim()
Trim(str) ==
    LET keep == {i \in 1..Len(str) : str[i] \notin Whitespace} IN
    IF keep = {} THEN <<>>
    ELSE SubSeq(str, CHOOSE i \in keep : \A j \in keep : i <= j,
                     CHOOSE i \in keep : \A j \in keep : i >= j)

\* String.prototype.startsWith
StartsWith(str, prefix) ==
    Len(str) >= Len(prefix) /\ SubSeq(str, 1, Len(prefix)) = prefix

\* String.prototype.slice(start)
Slice(str, start) == SubSeq(str, start + 1, Len(str))

\* JSON.parse: white space around the value is allowed
JSONParse(text) ==
    LET value == Trim(text) IN
    IF Len(value) = 1 /\ value[1] \in JsonLetters
    THEN [ok |-> TRUE, value |-> JsonValue(value[1])]
    ELSE [ok |-> FALSE, value |-> null]

\* the body of the for loop, and of the handling of the remaining buffer:
\* the calls of onEvent so far, after line has been handled
HandleLine(calls, line) ==
    LET trimmed == Trim(line) IN
    IF StartsWith(trimmed, DataPrefix)
    THEN LET data == JSONParse(Slice(trimmed, 6)) IN
         IF data.ok THEN Append(calls, data.value) ELSE calls
    ELSE calls

HandleLines(calls, lines) ==
    LET F[i \in 0..Len(lines)] ==
            IF i = 0 THEN calls ELSE HandleLine(F[i - 1], lines[i])
    IN F[Len(lines)]

\* a streamChat that returns without looking at the remaining buffer
RemainingBufferDropped(calls, rest) == calls

\* after the loop: "Process any remaining buffer"
HandleRemainingBuffer(calls, rest) == HandleLine(calls, rest)

\* one turn of the while loop: reader.read() gives the next n characters
ReadChunk(n) ==
    /\ readerPc = "read"
    /\ n \in 1..(Len(body) - offset)
    /\ LET value == SubSeq(body, offset + 1, offset + n)
           lines == SplitLines(buffer \o value)
       IN /\ buffer' = lines[Len(lines)]
          /\ delivered' = HandleLines(delivered, SubSeq(lines, 1, Len(lines) - 1))
    /\ offset' = offset + n
    /\ UNCHANGED <<body, readerPc, uiVars, sandboxVars, contextVars,
                   orchestratorVars>>

\* reader.read() gives done: the loop ends, the remaining buffer is handled
ReadDone ==
    /\ readerPc = "read"
    /\ offset = Len(body)
    /\ delivered' = HandleRemainingBuffer(delivered, buffer)
    /\ readerPc' = "returned"
    /\ UNCHANGED <<body, offset, buffer, uiVars, sandboxVars, contextVars,
                   orchestratorVars>>

\* the lines a body is made of
BodyLines ==
    {DataPrefix \o <<"T">>,
     DataPrefix \o <<"K">>,
     DataPrefix \o <<"D">>,
     <<" ">> \o DataPrefix \o <<" ", "T", "\r">>,
     DataPrefix \o <<"{">>,
     DataPrefix,
     <<"d", "a", "t", "a", ":", "T">>,
     <<":", " ", "T">>,
     <<>>}

JoinLines(lines) ==
    LET F[i \in 0..Len(lines)] ==
            IF i = 0 THEN <<>>
            ELSE IF i = 1 THEN lines[1]
            ELSE F[i - 1] \o <<"\n">> \o lines[i]
    IN F[Len(lines)]

\* every body of at most MaxLines lines, with and without a final newline
Bodies ==
    LET joined == {JoinLines(ls) :
                     ls \in UNION {[1..k -> BodyLines] : k \in 0..MaxLines}}
    IN joined \cup {b \o <<"\n">> : b \in joined}

UiIdle ==
    /\ conversations = <<>>
    /\ activeConversationId = null
    /\ messages = <<>>
    /\ streamingContent = ""
    /\ thinkingContent = ""
    /\ isThinking = FALSE
    /\ isStreaming = FALSE
    /\ isLoading = FALSE
    /\ toolStatus = null
    /\ error = null
    /\ abortControllerRef = null
    /\ turns = <<>>
    /\ nSends = 0
    /\ nEvents = 0
    /\ nNav = 0
    /\ loads = {}
    /\ convLoads = 0
    /\ deletes = {}
    /\ settledOk = TRUE

\* streamChat has the reader of a response body and an empty buffer
ParseInit ==
    /\ body \in Bodies
    /\ offset = 0
    /\ buffer = <<>>
    /\ delivered = <<>>
    /\ readerPc = "read"
    /\ UiIdle
    /\ SandboxIdle
    /\ ContextIdle
    /\ OrchestratorIdle

ParseNext ==
    \/ \E n \in 1..(Len(body) - offset) : ReadChunk(n)
    \/ ReadDone

ParseSpec == ParseInit /\ [][ParseNext]_vars

-----------------------------------------------------------------------------
\* Properties of the read loop (ParseSpec).

IsSpace(c) == c \in {" ", "\t", "\r"}

\* p is the place of the JSON text of a well-formed data line of the body:
\* "data: " stands before it, with only white space between the two, between
\* the start of the line and "data: ", and from p to the end of the line
DataPlace(p) ==
    /\ body[p] \in JsonLetters
    /\ \E d \in 1..(p - 6) :
           /\ SubSeq(body, d, d + 5) = DataPrefix
           /\ \A k \in (d + 6)..(p - 1) : IsSpace(body[k])
           /\ \E a \in 1..d :
                  /\ a = 1 \/ body[a - 1] = "\n"
                  /\ \A k \in a..(d - 1) : IsSpace(body[k])
    /\ \E b \in p..Len(body) :
           /\ b = Len(body) \/ body[b + 1] = "\n"
           /\ \A k \in (p + 1)..b : IsSpace(body[k])

\* the events of the well-formed data lines, in the order of the body
ExpectedEvents ==
    LET F[i \in 0..Len(body)] ==
            IF i = 0 THEN <<>>
            ELSE IF DataPlace(i) THEN Append(F[i - 1], JsonValue(body[i]))
            ELSE F[i - 1]
    IN F[Len(body)]

\* C2: whatever the chunks, the events onEvent has been called with are
\* always the first events of the well-formed data lines of the body, in
\* the body's order, and once streamChat has returned they are all of them.
C2_EventsInGenerationOrder ==
    /\ Len(delivered) <= Len(ExpectedEvents)
    /\ delivered = SubSeq(ExpectedEvents, 1, Len(delivered))
    /\ readerPc = "returned" => delivered = ExpectedEvents

\* streamChat has returned from a body of two lines: the first is skipped,
\* the second is a data line without a newline after it, and is delivered
C2_Witness ==
    /\ readerPc = "returned"
    /\ Len(body) > 0 /\ DataPlace(Len(body))
    /\ Cardinality({i \in 1..Len(body) : body[i] = "\n"}) = 1
    /\ body[1] # "\n"
    /\ Len(delivered) = 1

-----------------------------------------------------------------------------
\* The run_python tool (SandboxSpec): the Policy Evaluator, the Execution
\* Runner and the Tool Dispatcher's run_python branch. A code text is what
\* the parser makes of it: a syntax error, or the nodes of its syntax tree.

AllowedModules == {"numpy", "math"}
BlockedBuiltins == {"eval", "open"}
DunderNames == {"__globals__"}

Nodes ==
    {[kind |-> "import", name |-> m] : m \in AllowedModules \cup {"os"}}
    \cup {[kind |-> "call", name |-> f] : f \in BlockedBuiltins \cup {"print"}}
    \cup {[kind |-> "attribute", name |-> a] : a \in DunderNames \cup {"shape"}}

Codes ==
    {[parses |-> FALSE, nodes |-> <<>>]}
    \cup {[parses |-> TRUE, nodes |-> ns] :
             ns \in UNION {[1..k -> Nodes] : k \in 0..MaxNodes}}

\* what the policy rejects a node for
Disallowed(node) ==
    \/ node.kind = "import" /\ node.name \notin AllowedModules
    \/ node.kind = "call" /\ node.name \in BlockedBuiltins
    \/ node.kind = "attribute" /\ node.name \in DunderNames

\* Policy Evaluator: evaluate(code) -> PolicyVerdict
Evaluate(code) ==
    IF ~code.parses THEN [accept |-> FALSE, reason |-> "ParseError"]
    ELSE LET bad == {i \in 1..Len(code.nodes) : Disallowed(code.nodes[i])} IN
         IF bad = {} THEN [accept |-> TRUE, reason |-> ""]
         ELSE [accept |-> FALSE,
               reason |-> code.nodes[CHOOSE i \in bad : \A j \in bad : i <= j].name]

\* a dispatcher that runs the code whatever the verdict
RunsWhateverVerdict(verdict) == TRUE

\* Tool Dispatcher: run_python goes on from 4.1 to 4.2 on an accepting verdict
RunsOnVerdict(verdict) == verdict.accept

\* a runner that leaves a cancelled execution's process and directory behind
ReleaseUnlessCancelled(s, how) ==
    IF how = "cancel" THEN s
    ELSE [s EXCEPT !.process = "none", !.scratch = FALSE]

\* Execution Runner: the process has exited or has been terminated, and the
\* scratch directory is deleted
Release(s, how) == [s EXCEPT !.process = "none", !.scratch = FALSE]

\* how an invocation of the runner ends: normal exit, fault (non-zero exit
\* or exception), the 30-second timeout, cancellation by the client
Exits == {"exit", "fault", "timeout", "cancel"}

\* produced[i] is the number of ExecutionResults of the i-th invocation
SandboxInit ==
    /\ sandbox = [pc |-> "idle", code |-> [parses |-> TRUE, nodes |-> <<>>],
                  verdicts |-> {}, spawned |-> {}, results |-> {},
                  toolResults |-> 0, process |-> "none", scratch |-> FALSE,
                  produced |-> <<>>]
    /\ UiIdle
    /\ ParseIdle
    /\ ContextIdle
    /\ OrchestratorIdle

\* dispatch(run_python, code): the evaluation, and the ToolResult of a
\* rejected submission
DispatchRunPython(code) ==
    /\ sandbox.pc = "idle"
    /\ sandbox.toolResults < MaxDispatches
    /\ LET verdict == Evaluate(code)
           logged == [sandbox EXCEPT
                        !.code = code,
                        !.verdicts = @ \cup {[code |-> code,
                                              accept |-> verdict.accept]}]
       IN sandbox' = IF RunsOnVerdict(verdict)
                     THEN [logged EXCEPT !.pc = "accepted"]
                     ELSE [logged EXCEPT !.toolResults = @ + 1]
    /\ UNCHANGED <<uiVars, parseVars, contextVars, orchestratorVars>>

\* Execution Runner: the scratch directory is made, the process is spawned
Spawn ==
    /\ sandbox.pc = "accepted"
    /\ sandbox' = [sandbox EXCEPT !.pc = "running",
                                  !.scratch = TRUE,
                                  !.process = "running",
                                  !.spawned = @ \cup {sandbox.code},
                                  !.produced = Append(@, 0)]
    /\ UNCHANGED <<uiVars, parseVars, contextVars, orchestratorVars>>

\* the process exits, faults, or is killed at the timeout or on
\* cancellation; the scratch directory is deleted and the ExecutionResult
\* returned
Exit(how) ==
    /\ sandbox.pc = "running"
    /\ sandbox' = [Release(sandbox, how) EXCEPT
                      !.pc = "idle",
                      !.results = @ \cup {[code |-> sandbox.code,
                                           success |-> how = "exit"]},
                      !.produced[Len(sandbox.produced)] = @ + 1,
                      !.toolResults = @ + 1]
    /\ UNCHANGED <<uiVars, parseVars, contextVars, orchestratorVars>>

SandboxNext ==
    \/ \E code \in Codes : DispatchRunPython(code)
    \/ Spawn
    \/ \E how \in Exits : Exit(how)

SandboxSpec == SandboxInit /\ [][SandboxNext]_vars

\* C10: every code text a process was spawned for, or an ExecutionResult
\* exists for, parses, holds no disallowed construct, and has an accepting
\* PolicyVerdict on record; a submission under evaluation that is rejected
\* is never the one a process runs.
C10_NoRejectedCodeRuns ==
    /\ \A code \in sandbox.spawned \cup {r.code : r \in sandbox.results} :
           /\ code.parses
           /\ \A i \in 1..Len(code.nodes) : ~Disallowed(code.nodes[i])
           /\ [code |-> code, accept |-> TRUE] \in sandbox.verdicts
    /\ sandbox.process = "running" =>
           [code |-> sandbox.code, accept |-> FALSE] \notin sandbox.verdicts

\* one submission was rejected and never ran, another was accepted and ran
C10_Witness ==
    /\ \E v \in sandbox.verdicts : ~v.accept /\ v.code \notin sandbox.spawned
    /\ \E r \in sandbox.results : [code |-> r.code, accept |-> TRUE] \in sandbox.verdicts

\* C13: once an invocation of the runner has ended, however it ended, no
\* process of it is running and its scratch directory is gone; every ended
\* invocation has produced exactly one ExecutionResult, and the one that is
\* running has produced none yet.
C13_ResourcesReleased ==
    /\ sandbox.pc # "running" => sandbox.process = "none" /\ ~sandbox.scratch
    /\ \A i \in DOMAIN sandbox.produced :
           sandbox.produced[i] =
               IF sandbox.pc = "running" /\ i = Len(sandbox.produced)
               THEN 0 ELSE 1

\* two invocations have ended, the first with a success, the second not
C13_Witness ==
    /\ sandbox.pc = "idle"
    /\ Len(sandbox.produced) = 2
    /\ \E r1, r2 \in sandbox.results : r1.success /\ ~r2.success

-----------------------------------------------------------------------------
\* The Context Window Manager (ContextSpec), for one conversation. The
\* messages are numbered from 1 to count; a summary text is written as the
\* number of messages it stands for, "" being 0.

\* window size and trigger threshold
W == 20
T == 10

Max(a, b) == IF a >= b THEN a ELSE b

\* the first message of the window is the one after the window boundary
WindowBoundary(conv) == Max(conv.count - W, 0)

\* {summaryText, recentMessages}: the summary, and the last W messages
ContextOf(conv) ==
    [summaryText |-> conv.summary,
     recentMessages |-> [from |-> WindowBoundary(conv) + 1, to |-> conv.count]]

\* more than T messages were appended since summaryCoverage
Triggered(conv) == conv.count - conv.summaryCoverage > T

\* the new boundary of a re-summarization: at least the window boundary and
\* at most the end of the conversation
Boundaries(conv) == WindowBoundary(conv)..conv.count

\* a re-summarization that would move the coverage backward is rejected
AdvanceAllowed(conv, boundary) == boundary >= conv.summaryCoverage

\* the generation service has returned a summary of the span
Advance(conv, boundary) ==
    IF AdvanceAllowed(conv, boundary)
    THEN [conv EXCEPT !.summary = boundary,
                      !.summaryCoverage = boundary]
    ELSE conv

\* a manager that starts over when the generation call fails
SummarizationFailedResets(conv) ==
    [conv EXCEPT !.summary = 0, !.summaryCoverage = 0]

\* the generation call has failed: the previous summary is kept
SummarizationFailed(conv) == conv

\* buildContext returns
Returned(conv, outcome) ==
    [conv EXCEPT !.pc = "idle", !.outcome = outcome,
                 !.returned = ContextOf(conv)]

ContextInit ==
    /\ context = [count |-> 0, summary |-> 0, summaryCoverage |-> 0,
                  pc |-> "idle", boundary |-> 0, outcome |-> "none",
                  returned |-> <<>>]
    /\ UiIdle
    /\ ParseIdle
    /\ SandboxIdle
    /\ OrchestratorIdle

\* a turn appends a message to the conversation
AppendMessage ==
    /\ context.pc = "idle"
    /\ context.count < MaxMessages
    /\ context' = [context EXCEPT !.count = @ + 1]
    /\ UNCHANGED <<uiVars, parseVars, sandboxVars, orchestratorVars>>

\* buildContext(conversation): a pure read, unless the trigger condition
\* holds and there is a span to summarize
BuildContext(boundary) ==
    /\ context.pc = "idle"
    /\ boundary \in Boundaries(context)
    /\ context' = IF Triggered(context) /\ boundary # context.summaryCoverage
                  THEN [context EXCEPT !.pc = "summarizing",
                                       !.boundary = boundary]
                  ELSE Returned(context, "read")
    /\ UNCHANGED <<uiVars, parseVars, sandboxVars, orchestratorVars>>

SummaryProduced ==
    /\ context.pc = "summarizing"
    /\ context' = Returned(Advance(context, context.boundary), "produced")
    /\ UNCHANGED <<uiVars, parseVars, sandboxVars, orchestratorVars>>

SummaryFailed ==
    /\ context.pc = "summarizing"
    /\ context' = Returned(SummarizationFailed(context), "failed")
    /\ UNCHANGED <<uiVars, parseVars, sandboxVars, orchestratorVars>>

ContextNext ==
    \/ AppendMessage
    \/ \E boundary \in 0..MaxMessages : BuildContext(boundary)
    \/ SummaryProduced
    \/ SummaryFailed

ContextSpec == ContextInit /\ [][ContextNext]_vars

\* C11: summaryCoverage never exceeds the message count and never
\* decreases, whatever appends and buildContext calls follow each other; a
\* call whose summarization fails leaves summary and summaryCoverage as they
\* were and still returns a context.
C11_CoverageMonotone ==
    /\ [](context.summaryCoverage <= context.count)
    /\ [][/\ context'.summaryCoverage >= context.summaryCoverage
          /\ (context.pc = "summarizing" /\ context'.outcome = "failed")
                 => /\ context'.summary = context.summary
                    /\ context'.summaryCoverage = context.summaryCoverage
                    /\ context'.pc = "idle"
                    /\ context'.returned = ContextOf(context)
         ]_vars

\* the conversation is longer than the window, a part of it is summarized,
\* and the last summarization attempt has failed
C11_Witness ==
    /\ context.count > W
    /\ context.summaryCoverage > 0
    /\ context.pc = "idle" /\ context.outcome = "failed"

-----------------------------------------------------------------------------
\* The Streaming Orchestrator (TurnSpec), for one turn. emitted is the event
\* stream of the turn so far, by event type.

ToolNames == {"web_search", "run_python"}

\* what the first pass can signal: no tool invocation, or up to MaxToolCalls
ToolCallLists == UNION {[1..k -> ToolNames] : k \in 0..MaxToolCalls}

\* a second pass that is given the tool definitions
SecondPassToolsEnabled == ToolNames

\* STREAMING runs with tool definitions disabled
SecondPassTools == {}

\* what an increment of the generation stream can be, given the tool
\* definitions of the call
Increments(tools) ==
    {[kind |-> "thinking", name |-> ""], [kind |-> "token", name |-> ""]}
    \cup {[kind |-> "tool_call", name |-> n] : n \in tools}

Emit(o, type) == [o EXCEPT !.emitted = Append(@, type)]

\* TOOL_EXEC for one call: the tool_status event, the dispatch, the tool
\* role message
Dispatch(o, call) ==
    [Emit(o, "tool_status") EXCEPT
        !.dispatched = Append(@, [name |-> call, state |-> o.state]),
        !.toolMessages = @ + 1]

TurnInit ==
    /\ orchestrator = [state |-> "INIT", signalled |-> <<>>, pending |-> <<>>,
                       emitted |-> <<>>, dispatched |-> <<>>,
                       toolMessages |-> 0, increments |-> 0,
                       persisted |-> FALSE]
    /\ UiIdle
    /\ ParseIdle
    /\ SandboxIdle
    /\ ContextIdle

\* INIT: the non-streaming first pass returns
FirstPass(calls) ==
    /\ orchestrator.state = "INIT"
    /\ orchestrator' = [orchestrator EXCEPT
                           !.signalled = calls,
                           !.pending = calls,
                           !.state = IF calls = <<>> THEN "STREAMING"
                                     ELSE "TOOL_EXEC"]
    /\ UNCHANGED <<uiVars, parseVars, sandboxVars, contextVars>>

\* TOOL_EXEC: the next call is dispatched; after the last one, STREAMING
DispatchNext ==
    /\ orchestrator.state = "TOOL_EXEC"
    /\ orchestrator.pending # <<>>
    /\ LET o == Dispatch(orchestrator, Head(orchestrator.pending)) IN
       orchestrator' = [o EXCEPT
                           !.pending = Tail(@),
                           !.state = IF Tail(orchestrator.pending) = <<>>
                                     THEN "STREAMING" ELSE @]
    /\ UNCHANGED <<uiVars, parseVars, sandboxVars, contextVars>>

\* STREAMING: an increment of the generation stream is classified and emitted
StreamIncrement(inc) ==
    /\ orchestrator.state = "STREAMING"
    /\ orchestrator.increments < MaxIncrements
    /\ inc \in Increments(SecondPassTools)
    /\ LET o == [orchestrator EXCEPT !.increments = @ + 1] IN
       orchestrator' = IF inc.kind = "tool_call" THEN Dispatch(o, inc.name)
                       ELSE Emit(o, inc.kind)
    /\ UNCHANGED <<uiVars, parseVars, sandboxVars, contextVars>>

\* DONE: the generation stream signals completion
StreamCompletes ==
    /\ orchestrator.state = "STREAMING"
    /\ orchestrator' = [Emit(orchestrator, "done") EXCEPT
                           !.state = "DONE", !.persisted = TRUE]
    /\ UNCHANGED <<uiVars, parseVars, sandboxVars, contextVars>>

\* ERROR: reachable from any non-terminal state
TurnFails ==
    /\ orchestrator.state \in {"INIT", "TOOL_EXEC", "STREAMING"}
    /\ orchestrator' = [Emit(orchestrator, "error") EXCEPT !.state = "ERROR"]
    /\ UNCHANGED <<uiVars, parseVars, sandboxVars, contextVars>>

TurnNext ==
    \/ \E calls \in ToolCallLists : FirstPass(calls)
    \/ DispatchNext
    \/ \E inc \in Increments(ToolNames) : StreamIncrement(inc)
    \/ StreamCompletes
    \/ TurnFails

TurnSpec == TurnInit /\ [][TurnNext]_vars

\* the events of type type in the stream
Count(events, type) ==
    Cardinality({i \in DOMAIN events : events[i] = type})

\* C12: the stream carries one tool_status event per dispatched tool call;
\* every tool_status event stands before every thinking and token event;
\* done and error only stand at the end of the stream, and a turn that has
\* ended has exactly one of them, as its last event; a turn that reaches
\* DONE has dispatched every tool call the first pass signalled; and every
\* dispatch happens in TOOL_EXEC, none during the second pass.
C12_ToolStatusThenStreamThenDone ==
    LET o == orchestrator
        e == o.emitted
        terminal == {i \in DOMAIN e : e[i] \in {"done", "error"}}
    IN /\ Count(e, "tool_status") = Len(o.dispatched)
       /\ \A i, j \in DOMAIN e :
              e[i] = "tool_status" /\ e[j] \in {"thinking", "token"} => i < j
       /\ terminal \subseteq {Len(e)}
       /\ o.state \in {"DONE", "ERROR"} <=> terminal # {}
       /\ o.state = "DONE" =>
              /\ e[Len(e)] = "done"
              /\ Len(o.dispatched) = Len(o.signalled)
       /\ o.state = "ERROR" => e[Len(e)] = "error"
       /\ \A i \in DOMAIN o.dispatched : o.dispatched[i].state = "TOOL_EXEC"

\* the first pass signalled two tool calls, and the turn is done after
\* thinking and answer increments
C12_Witness ==
    /\ orchestrator.state = "DONE"
    /\ Len(orchestrator.signalled) = 2
    /\ Count(orchestrator.emitted, "thinking") > 0
    /\ Count(orchestrator.emitted, "token") > 0

====
